---- MODULE Spec2Model ----
(***************************************************************************)
(* Cytometry analysis pipeline: the SQLite store of src/src/database.py,   *)
(* the loader load_data_from_csv, the analyses of src/src/analysis.py and  *)
(* the command line driver of src/main.py.                                 *)
(*                                                                         *)
(* The store is modelled twice over: disk is the committed content of the  *)
(* database file, conn is what the loader's connection sees (disk plus the *)
(* statements of its open transaction).  A DataFrame.to_sql of a non-empty *)
(* frame on a sqlite3 connection inserts all rows and commits, or rolls    *)
(* the open transaction back and raises.                                   *)
(***************************************************************************)
EXTENDS Integers, Sequences, FiniteSets, TLC

VARIABLES
    pc,             \* position of main() in src/main.py
    csv,            \* the file at data/cell-count.csv during this run
    disk,           \* committed content of cytometry_data.db
    conn,           \* content seen by CytometryDatabase.conn
    db_conn,        \* state of CytometryDatabase.conn: "none", "open", "closed"
    analyzer_conn,  \* state of CytometryAnalyzer.conn
    error,          \* the exception that ended a stage, or "none"
    diagnostic,     \* the diagnostic main() printed, or "none"
    summary,        \* result of get_sample_summary, or NoResult
    part2_results,  \* result of part2_data_overview, or NoResult
    part3_data,     \* joined record set of part3_statistical_analysis
    part3_stats,    \* statistical_results of part3_statistical_analysis
    part4_results,  \* result of part4_subset_analysis
    output,         \* the files this run has written to the output directory
    before          \* history: the store as the load of this run found it

vars == <<pc, csv, before, disk, conn, db_conn, analyzer_conn, error, diagnostic,
          summary, part2_results, part3_data, part3_stats, part4_results, output>>

(***************************************************************************)
(* Bounds of the model.                                                    *)
(***************************************************************************)
\* Largest number of data rows of an input file.
MaxRows == 3

\* SQL NULL, which is also how pandas stores a missing (NaN) field.
NULL == "NULL"

\* A result that has not been computed in this run.
NoResult == "no_result"

(***************************************************************************)
(* Schema constants.                                                       *)
(***************************************************************************)
required_columns ==
    {"project", "subject", "condition", "age", "sex", "treatment",
     "response", "sample", "sample_type", "time_from_treatment_start",
     "b_cell", "cd8_t_cell", "cd4_t_cell", "nk_cell", "monocyte"}

\* The list cell_populations of load_data_from_csv, in its order.
cell_populations == <<"b_cell", "cd8_t_cell", "cd4_t_cell", "nk_cell", "monocyte">>

\* The rows initialize_cell_populations inserts or replaces.
populations ==
    {[population_id |-> "b_cell",     population_name |-> "B Cell"],
     [population_id |-> "cd8_t_cell", population_name |-> "CD8+ T Cell"],
     [population_id |-> "cd4_t_cell", population_name |-> "CD4+ T Cell"],
     [population_id |-> "nk_cell",    population_name |-> "NK Cell"],
     [population_id |-> "monocyte",   population_name |-> "Monocyte"]}

\* The tables load_data_from_csv clears, in the order of its DELETE statements.
ClearOrder == <<"cell_counts", "samples", "subjects", "projects">>

(***************************************************************************)
(* Input files.  A file is a header (its set of columns) and a list of     *)
(* rows; the rows of the model's files are taken, in order, from InputRows.*)
(***************************************************************************)
Row(project, subject, condition, sex, treatment, response, sample, sample_type, time, counts) ==
    [project |-> project, subject |-> subject, condition |-> condition,
     age |-> 30, sex |-> sex, treatment |-> treatment, response |-> response,
     sample |-> sample, sample_type |-> sample_type,
     time_from_treatment_start |-> time,
     b_cell |-> counts[1], cd8_t_cell |-> counts[2], cd4_t_cell |-> counts[3],
     nk_cell |-> counts[4], monocyte |-> counts[5]]

InputRows ==
    << \* a responder of the cohort, baseline
       Row("p1", "sub1", "melanoma", "M", "miraclib", "yes", "s2", "PBMC", 0, <<1, 0, 2, 0, 1>>),
       \* a non-responder of the cohort, baseline
       Row("p1", "sub2", "melanoma", "F", "miraclib", "no", "s1", "PBMC", 0, <<0, 2, 0, 0, 0>>),
       \* a second baseline sample of sub1, all counts zero
       Row("p1", "sub1", "melanoma", "M", "miraclib", "yes", "s3", "PBMC", 0, <<0, 0, 0, 0, 0>>),
       \* sub1 again, disagreeing on project and response
       Row("p2", "sub1", "melanoma", "M", "miraclib", "no", "s4", "PBMC", 7, <<1, 1, 0, 0, 0>>),
       \* sub1 again, the sample id of the first row, another sample type
       Row("p1", "sub1", "melanoma", "M", "miraclib", "yes", "s2", "WB", 7, <<1, 1, 1, 1, 1>>),
       \* a sex outside M, F
       Row("p2", "sub3", "melanoma", "X", "miraclib", "yes", "s5", "PBMC", 0, <<1, 0, 0, 0, 0>>),
       \* a response outside yes, no
       Row("p2", "sub4", "melanoma", "F", "miraclib", "maybe", "s5", "PBMC", 0, <<0, 1, 0, 0, 3>>),
       \* an empty response field
       Row("p2", "sub5", "melanoma", "M", "miraclib", NULL, "s6", "PBMC", 0, <<2, 0, 0, 1, 0>>),
       \* outside the cohort, an empty response field
       Row("p2", "sub6", "healthy", "F", "none", NULL, "s7", "PBMC", 0, <<0, 0, 1, 0, 0>>) >>

\* The k-th smallest element of a set of integers.
Kth(S, k) == CHOOSE x \in S : Cardinality({y \in S : y < x}) = k - 1

\* The elements of seq at the positions idx, in their order in seq.
SubSeqAt(seq, idx) == [k \in 1..Cardinality(idx) |-> seq[Kth(idx, k)]]

RowLists ==
    {SubSeqAt(InputRows, idx) :
        idx \in {s \in SUBSET (1..Len(InputRows)) : Cardinality(s) <= MaxRows}}

\* No file at the path.
NoFile == [exists |-> FALSE, columns |-> {}, rows |-> <<>>]

CsvFiles ==
    {NoFile}
    \cup {[exists |-> TRUE, columns |-> required_columns, rows |-> r] : r \in RowLists}
    \cup {[exists |-> TRUE, columns |-> c, rows |-> r] :
            c \in {required_columns \ {"response"}, required_columns \cup {"batch"}},
            r \in {r \in RowLists : Len(r) = 1 /\ r[1].subject = "sub2"}}

(***************************************************************************)
(* The store.                                                              *)
(***************************************************************************)
EmptyStore ==
    [projects |-> {}, subjects |-> {}, samples |-> {}, cell_counts |-> {},
     cell_populations |-> {}]

\* x IN (list) of SQL, three-valued: "true", "false" or "null".
SqlIn(x, list) ==
    IF x = NULL THEN "null"
    ELSE IF \E v \in list : v # NULL /\ v = x THEN "true"
    ELSE IF NULL \in list THEN "null"
    ELSE "false"

\* A CHECK constraint fails only when its expression is false.
CheckHolds(value) == value # "false"

\* CHECK (sex IN ('M', 'F')) and CHECK (response IN ('yes', 'no', NULL)).
SubjectChecks(s) ==
    /\ CheckHolds(SqlIn(s.sex, {"M", "F"}))
    /\ CheckHolds(SqlIn(s.response, {"yes", "no", NULL}))

\* Mutation: foreign keys are not enforced (SQLite's default without the PRAGMA).
ForeignKeysOff(value, parent_keys) == TRUE

\* A foreign key column is checked unless it is NULL (PRAGMA foreign_keys = ON).
ForeignKeyHolds(value, parent_keys) == value = NULL \/ value \in parent_keys

\* The primary key of a row of each table.
PrimaryKey(table, r) ==
    CASE table = "projects" -> <<r.project_id>>
      [] table = "subjects" -> <<r.subject_id>>
      [] table = "samples" -> <<r.sample_id>>
      [] table = "cell_counts" -> <<r.sample_id, r.population_id>>
      [] table = "cell_populations" -> <<r.population_id>>

\* The constraints of create_schema on one row inserted into table of db.
RowConstraints(table, r, db) ==
    CASE table = "projects" -> TRUE
      [] table = "subjects" ->
            /\ SubjectChecks(r)
            /\ ForeignKeyHolds(r.project_id, {p.project_id : p \in db.projects})
      [] table = "samples" ->
            ForeignKeyHolds(r.subject_id, {s.subject_id : s \in db.subjects})
      [] table = "cell_counts" ->
            /\ ForeignKeyHolds(r.sample_id, {s.sample_id : s \in db.samples})
            /\ ForeignKeyHolds(r.population_id,
                               {p.population_id : p \in db.cell_populations})
      [] table = "cell_populations" -> TRUE

\* Inserting the rows of frame, one after the other, violates no constraint.
InsertAccepted(table, frame, db) ==
    /\ \A i \in 1..Len(frame) : RowConstraints(table, frame[i], db)
    /\ \A i \in 1..Len(frame) :
          PrimaryKey(table, frame[i]) \notin {PrimaryKey(table, r) : r \in db[table]}
    /\ \A i, j \in 1..Len(frame) :
          i # j => PrimaryKey(table, frame[i]) # PrimaryKey(table, frame[j])

\* The rows of seq as a set.
Range(seq) == {seq[i] : i \in 1..Len(seq)}

\* DELETE FROM table is refused while a row of a child table references it.
DeleteAccepted(table, db) ==
    CASE table = "cell_counts" -> TRUE
      [] table = "samples" ->
            \A c \in db.cell_counts : c.sample_id = NULL
      [] table = "subjects" ->
            \A s \in db.samples : s.subject_id = NULL
      [] table = "projects" ->
            \A s \in db.subjects : s.project_id = NULL

(***************************************************************************)
(* The frames load_data_from_csv derives from the rows of the file.        *)
(***************************************************************************)
\* DataFrame.drop_duplicates: the first occurrence of every row is kept.
drop_duplicates(seq) ==
    SubSeqAt(seq, {i \in 1..Len(seq) : \A j \in 1..(i - 1) : seq[j] # seq[i]})

ProjectsFrame(rows) ==
    LET ids == drop_duplicates([i \in 1..Len(rows) |-> rows[i].project])
    IN  [i \in 1..Len(ids) |->
            [project_id |-> ids[i], project_name |-> ids[i],
             description |-> "Cytometry analysis project"]]

SubjectsFrame(rows) ==
    drop_duplicates(
        [i \in 1..Len(rows) |->
            [subject_id |-> rows[i].subject, project_id |-> rows[i].project,
             condition |-> rows[i].condition, age |-> rows[i].age,
             sex |-> rows[i].sex, treatment |-> rows[i].treatment,
             response |-> rows[i].response]])

SamplesFrame(rows) ==
    [i \in 1..Len(rows) |->
        [sample_id |-> rows[i].sample, subject_id |-> rows[i].subject,
         sample_type |-> rows[i].sample_type,
         time_from_treatment_start |-> rows[i].time_from_treatment_start]]

\* Mutation: the last population column is left out of the fan-out.
CellCountsFrameShort(rows) ==
    [k \in 1..(Len(rows) * (Len(cell_populations) - 1)) |->
        LET row == rows[((k - 1) \div (Len(cell_populations) - 1)) + 1]
            pop == cell_populations[((k - 1) % (Len(cell_populations) - 1)) + 1]
        IN  [sample_id |-> row.sample, population_id |-> pop, count |-> row[pop]]]

\* Mutation: every count is read from the first population column.
CellCountsFrameFirstColumn(rows) ==
    [k \in 1..(Len(rows) * Len(cell_populations)) |->
        LET row == rows[((k - 1) \div Len(cell_populations)) + 1]
            pop == cell_populations[((k - 1) % Len(cell_populations)) + 1]
        IN  [sample_id |-> row.sample, population_id |-> pop,
             count |-> row[cell_populations[1]]]]

\* Five rows for every row of the file, in the order of cell_populations.
CellCountsFrame(rows) ==
    [k \in 1..(Len(rows) * Len(cell_populations)) |->
        LET row == rows[((k - 1) \div Len(cell_populations)) + 1]
            pop == cell_populations[((k - 1) % Len(cell_populations)) + 1]
        IN  [sample_id |-> row.sample, population_id |-> pop, count |-> row[pop]]]

\* The frame load_data_from_csv appends to each table.
FrameOf(table, rows) ==
    CASE table = "projects" -> ProjectsFrame(rows)
      [] table = "subjects" -> SubjectsFrame(rows)
      [] table = "samples" -> SamplesFrame(rows)
      [] table = "cell_counts" -> CellCountsFrame(rows)

(***************************************************************************)
(* get_sample_summary.                                                     *)
(***************************************************************************)
\* The rows of projects JOIN subjects JOIN samples.
SummaryJoin(db) ==
    {<<p, s, sa>> \in db.projects \X db.subjects \X db.samples :
        /\ p.project_id = s.project_id
        /\ s.subject_id = sa.subject_id}

\* COUNT(DISTINCT x) counts the values that are not NULL.
CountDistinct(values) == Cardinality(values \ {NULL})

get_sample_summary(db) ==
    LET j == SummaryJoin(db)
    IN  [num_projects |-> CountDistinct({t[1].project_id : t \in j}),
         num_subjects |-> CountDistinct({t[2].subject_id : t \in j}),
         num_samples |-> CountDistinct({t[3].sample_id : t \in j}),
         num_conditions |-> CountDistinct({t[2].condition : t \in j}),
         num_treatments |-> CountDistinct({t[2].treatment : t \in j})]

(***************************************************************************)
(* History of a run: the row counts of the store when the run's load began *)
(* and whether the store then held exactly the rows of the file now loaded.*)
(***************************************************************************)
\* The number of rows of the four tables a load replaces.
Counts(db) ==
    [projects |-> Cardinality(db.projects), subjects |-> Cardinality(db.subjects),
     samples |-> Cardinality(db.samples), cell_counts |-> Cardinality(db.cell_counts)]

Snapshot(db, rows) ==
    [counts |-> Counts(db),
     same_file |-> \A t \in Range(ClearOrder) : db[t] = Range(FrameOf(t, rows))]

NoSnapshot == [counts |-> Counts(EmptyStore), same_file |-> FALSE]

(***************************************************************************)
(* The state before the first run: no database file yet.                   *)
(***************************************************************************)
Init ==
    /\ pc = "idle"
    /\ csv = NoFile
    /\ before = NoSnapshot
    /\ disk = EmptyStore
    /\ conn = EmptyStore
    /\ db_conn = "none"
    /\ analyzer_conn = "none"
    /\ error = "none"
    /\ diagnostic = "none"
    /\ summary = NoResult
    /\ part2_results = NoResult
    /\ part3_data = NoResult
    /\ part3_stats = NoResult
    /\ part4_results = NoResult
    /\ output = <<>>

results == <<summary, part2_results, part3_data, part3_stats, part4_results, output>>

(***************************************************************************)
(* main(), step 1: the file check and the database set-up.                 *)
(***************************************************************************)
\* main.py 42-54: a run starts with some file, or none, at csv_path.
MainStart ==
    /\ pc = "idle"
    /\ \E f \in CsvFiles :
          /\ csv' = f
          /\ IF f.exists
                THEN /\ pc' = "init_db"
                     /\ diagnostic' = "none"
                ELSE /\ pc' = "exited"
                     /\ diagnostic' = "CSV file not found"
    /\ UNCHANGED <<before, disk, conn, db_conn, analyzer_conn, error, results>>

\* INSERT OR REPLACE: a row with the key of a new row is replaced by it.
InsertOrReplace(table, rows, db) ==
    {r \in db[table] : PrimaryKey(table, r) \notin {PrimaryKey(table, n) : n \in rows}}
        \cup rows

\* CytometryDatabase.__init__: connect, create_schema, initialize_cell_populations,
\* commit.
InitDb ==
    /\ pc = "init_db"
    /\ db_conn' = "open"
    /\ disk' = [disk EXCEPT !.cell_populations =
                    InsertOrReplace("cell_populations", populations, disk)]
    /\ conn' = disk'
    /\ before' = Snapshot(disk', csv.rows)
    /\ pc' = "load"
    /\ UNCHANGED <<csv, analyzer_conn, error, diagnostic, results>>

\* main.py 73-75: the load or the summary raised.  The connection is not closed;
\* its open transaction is never committed.
DatabaseSetupFailed(exception) ==
    /\ error' = exception
    /\ diagnostic' = "Database setup failed"
    /\ conn' = disk
    /\ pc' = "exited"
    /\ UNCHANGED <<csv, before, disk, db_conn, analyzer_conn, results>>

\* The file main found at csv_path (main.py 50) is removed by another process
\* before load_data_from_csv looks for it (database.py 143).
FileRemoved ==
    /\ pc \in {"init_db", "load"}
    /\ csv.exists
    /\ csv' = NoFile
    /\ UNCHANGED <<pc, before, disk, conn, db_conn, analyzer_conn, error, diagnostic,
                   results>>

\* Mutation: a file is rejected unless its columns are exactly the required ones.
LoadValidateExactColumns ==
    /\ pc = "load"
    /\ IF ~csv.exists
          THEN DatabaseSetupFailed("FileNotFoundError")
          ELSE IF csv.columns # required_columns
                  THEN DatabaseSetupFailed("ValueError")
                  ELSE /\ pc' = "delete_cell_counts"
                       /\ UNCHANGED <<csv, before, disk, conn, db_conn, analyzer_conn,
                                      error, diagnostic, results>>

\* load_data_from_csv 143-159: the path, the parse and the column validation.
LoadValidate ==
    /\ pc = "load"
    /\ IF ~csv.exists
          THEN DatabaseSetupFailed("FileNotFoundError")
          ELSE IF required_columns \ csv.columns # {}
                  THEN DatabaseSetupFailed("ValueError")
                  ELSE /\ pc' = "delete_cell_counts"
                       /\ UNCHANGED <<csv, before, disk, conn, db_conn, analyzer_conn,
                                      error, diagnostic, results>>

\* The position after the DELETE of each table of ClearOrder.
AfterDelete(table) ==
    CASE table = "cell_counts" -> "delete_samples"
      [] table = "samples" -> "delete_subjects"
      [] table = "subjects" -> "delete_projects"
      [] table = "projects" -> "insert_projects"

\* Mutation: the DELETE statement removes nothing.
DeleteSkipped(table) ==
    /\ pc = "delete_" \o table
    /\ pc' = AfterDelete(table)
    /\ UNCHANGED <<csv, before, disk, conn, db_conn, analyzer_conn, error,
                   diagnostic, results>>

\* One DELETE FROM statement of the clear step (lines 162-165); it opens the
\* connection's transaction and is not committed by itself.
Delete(table) ==
    /\ pc = "delete_" \o table
    /\ IF DeleteAccepted(table, conn)
          THEN /\ conn' = [conn EXCEPT ![table] = {}]
               /\ pc' = AfterDelete(table)
               /\ UNCHANGED <<csv, before, disk, db_conn, analyzer_conn, error,
                              diagnostic, results>>
          ELSE DatabaseSetupFailed("IntegrityError")

DeleteCellCounts == Delete(ClearOrder[1])
DeleteSamples == Delete(ClearOrder[2])
DeleteSubjects == Delete(ClearOrder[3])
DeleteProjects == Delete(ClearOrder[4])

\* The position after the to_sql of each table (lines 172, 181, 189, 202).
AfterInsert(table) ==
    CASE table = "projects" -> "insert_subjects"
      [] table = "subjects" -> "insert_samples"
      [] table = "samples" -> "insert_cell_counts"
      [] table = "cell_counts" -> "commit"

\* frame.to_sql(table, conn, if_exists='append'): an empty frame inserts nothing;
\* otherwise every row is inserted and the transaction committed, or the
\* transaction is rolled back and the error raised.
Insert(table) ==
    /\ pc = "insert_" \o table
    /\ LET frame == FrameOf(table, csv.rows)
       IN  IF Len(frame) = 0
              THEN /\ pc' = AfterInsert(table)
                   /\ UNCHANGED <<csv, before, disk, conn, db_conn, analyzer_conn, error,
                                  diagnostic, results>>
              ELSE IF InsertAccepted(table, frame, conn)
                      THEN /\ conn' = [conn EXCEPT ![table] = @ \cup Range(frame)]
                           /\ disk' = conn'
                           /\ pc' = AfterInsert(table)
                           /\ UNCHANGED <<csv, before, db_conn, analyzer_conn, error,
                                          diagnostic, results>>
                      ELSE DatabaseSetupFailed("IntegrityError")

InsertProjects == Insert("projects")
InsertSubjects == Insert("subjects")
InsertSamples == Insert("samples")
InsertCellCounts == Insert("cell_counts")

\* load_data_from_csv 204-205: the final commit; the load has completed.
Commit ==
    /\ pc = "commit"
    /\ disk' = conn
    /\ pc' = "summary"
    /\ UNCHANGED <<csv, before, conn, db_conn, analyzer_conn, error, diagnostic, results>>

\* main.py 62-71: the summary is read and printed, the connection closed.
Summary ==
    /\ pc = "summary"
    /\ summary' = get_sample_summary(conn)
    /\ db_conn' = "closed"
    /\ pc' = "analysis"
    /\ UNCHANGED <<csv, before, disk, conn, analyzer_conn, error, diagnostic,
                   part2_results, part3_data, part3_stats, part4_results, output>>

(***************************************************************************)
(* Values of the analyses.                                                 *)
(***************************************************************************)
\* The TEXT values the model sorts, in SQLite's (binary) collation order.
Collation ==
    <<"b_cell", "cd4_t_cell", "cd8_t_cell", "monocyte", "nk_cell",
      "s1", "s2", "s3", "s4", "s5", "s6", "s7">>

TextRank(t) == CHOOSE i \in 1..Len(Collation) : Collation[i] = t

\* A float: a ratio num/den, or the IEEE value that a division by zero gives.
Number(num, den) == [kind |-> "number", num |-> num, den |-> den]
NaN == [kind |-> "nan", num |-> 0, den |-> 0]
Infinity == [kind |-> "inf", num |-> 0, den |-> 0]
NegInfinity == [kind |-> "-inf", num |-> 0, den |-> 0]

\* Mutation: a zero total is reported as 0 percent.
PercentageZeroOnZeroTotal(count, total_count) ==
    IF total_count # 0 THEN Number(count * 100, total_count) ELSE Number(0, 1)

\* (count / total_count) * 100 on pandas Series: a zero divisor raises nothing.
Percentage(count, total_count) ==
    IF total_count # 0 THEN Number(count * 100, total_count)
    ELSE IF count = 0 THEN NaN
    ELSE IF count > 0 THEN Infinity
    ELSE NegInfinity

\* The sum of the count column of a set of rows.
RECURSIVE SumCount(_)
SumCount(rows) ==
    IF rows = {} THEN 0
    ELSE LET r == CHOOSE r \in rows : TRUE
         IN  r.count + SumCount(rows \ {r})

(***************************************************************************)
(* CytometryAnalyzer.part2_data_overview.                                  *)
(***************************************************************************)
\* cell_counts JOIN cell_populations ON population_id.
OverviewJoin(db) ==
    {[sample |-> cc.sample_id, population |-> cp.population_id, count |-> cc.count] :
        <<cc, cp>> \in {t \in db.cell_counts \X db.cell_populations :
                            t[1].population_id = t[2].population_id}}

\* Mutation: ORDER BY population, then sample.
OrderedByPopulationFirst(q, r) ==
    \/ TextRank(q.population) < TextRank(r.population)
    \/ /\ q.population = r.population
       /\ \/ TextRank(q.sample) < TextRank(r.sample)
          \/ q.sample = r.sample /\ q.count < r.count

\* ORDER BY cc.sample_id, cp.population_id.
OrderedBefore(q, r) ==
    \/ TextRank(q.sample) < TextRank(r.sample)
    \/ /\ q.sample = r.sample
       /\ \/ TextRank(q.population) < TextRank(r.population)
          \/ q.population = r.population /\ q.count < r.count

OrderBy(rows) ==
    [k \in 1..Cardinality(rows) |->
        CHOOSE r \in rows : Cardinality({q \in rows : OrderedBefore(q, r)}) = k - 1]

\* Mutation: the counts are summed without the groupby.
TotalOfAllSamples(rows, sample) == SumCount(rows)

\* groupby('sample')['count'].sum(): the total of the rows of one sample.
SampleTotal(rows, sample) == SumCount({r \in rows : r.sample = sample})

part2_data_overview(db) ==
    LET df == OrderBy(OverviewJoin(db))
        total(i) == SampleTotal(Range(df), df[i].sample)
    IN  [i \in 1..Len(df) |->
            [sample |-> df[i].sample,
             total_count |-> total(i),
             population |-> df[i].population,
             count |-> df[i].count,
             percentage |-> Percentage(df[i].count, total(i))]]

(***************************************************************************)
(* CytometryAnalyzer.part3_statistical_analysis.                           *)
(***************************************************************************)
\* subjects JOIN samples JOIN cell_counts with the WHERE clause of lines 84-87.
CohortJoin(db) ==
    {[subject_id |-> t[1].subject_id, response |-> t[1].response,
      sample_id |-> t[2].sample_id, population_id |-> t[3].population_id,
      count |-> t[3].count,
      time_from_treatment_start |-> t[2].time_from_treatment_start] :
        t \in {t \in db.subjects \X db.samples \X db.cell_counts :
                  /\ t[1].subject_id = t[2].subject_id
                  /\ t[2].sample_id = t[3].sample_id
                  /\ t[1].condition = "melanoma"
                  /\ t[1].treatment = "miraclib"
                  /\ t[2].sample_type = "PBMC"
                  /\ t[1].response # NULL}}

\* Lines 96-100: total_count and percentage of every record.
part3_data_of(db) ==
    LET df == CohortJoin(db)
        total(r) == SumCount({q \in df : q.sample_id = r.sample_id})
    IN  {[subject_id |-> r.subject_id, response |-> r.response,
          sample_id |-> r.sample_id, population_id |-> r.population_id,
          count |-> r.count,
          time_from_treatment_start |-> r.time_from_treatment_start,
          total_count |-> total(r),
          percentage |-> Percentage(r.count, total(r))] : r \in df}

\* Mutation: every record that is not a responder's counts as a non-responder's.
GroupYesOrElse(df, pop, response) ==
    {r \in df : r.population_id = pop
                   /\ (IF response = "yes" THEN r.response = "yes" ELSE r.response # "yes")}

\* The records of one population with one response.
Group(df, pop, response) ==
    {r \in df : r.population_id = pop /\ r.response = response}

\* Lines 103-136: an entry for every population with both groups; the values
\* scipy computes from the percentages are not part of the model.
part3_stats_of(db) ==
    LET df == part3_data_of(db)
        tested == {pop \in {r.population_id : r \in df} :
                      /\ Cardinality(Group(df, pop, "yes")) > 0
                      /\ Cardinality(Group(df, pop, "no")) > 0}
    IN  [pop \in tested |->
            [n_responders |-> Cardinality(Group(df, pop, "yes")),
             n_non_responders |-> Cardinality(Group(df, pop, "no"))]]

(***************************************************************************)
(* CytometryAnalyzer.part4_subset_analysis.                                *)
(***************************************************************************)
\* subjects JOIN samples with the WHERE clause of lines 207-210.
BaselineJoin(db) ==
    {[project_id |-> t[1].project_id, subject_id |-> t[1].subject_id,
      response |-> t[1].response, sex |-> t[1].sex, sample_id |-> t[2].sample_id] :
        t \in {t \in db.subjects \X db.samples :
                  /\ t[1].subject_id = t[2].subject_id
                  /\ t[1].condition = "melanoma"
                  /\ t[1].treatment = "miraclib"
                  /\ t[2].sample_type = "PBMC"
                  /\ t[2].time_from_treatment_start = 0}}

\* Series.value_counts().to_dict(): the rows of every value that is not missing.
value_counts(df, column) ==
    [v \in {r[column] : r \in df} \ {NULL} |->
        Cardinality({r \in df : r[column] = v})]

\* An empty dict.
EmptyDict == <<>>

\* Mutation: the check of df.empty (lines 215-216) is left out.
part4_without_empty_check(db) ==
    LET df == BaselineJoin(db)
    IN  [total_samples |-> Cardinality(df),
         samples_by_project |-> value_counts(df, "project_id"),
         responders_by_response |-> value_counts(df, "response"),
         subjects_by_gender |-> value_counts(df, "sex"),
         unique_subjects |-> Cardinality({r.subject_id : r \in df} \ {NULL})]

\* Lines 213-226.
part4_subset_analysis(db) ==
    LET df == BaselineJoin(db)
    IN  IF df = {} THEN EmptyDict
        ELSE [total_samples |-> Cardinality(df),
              samples_by_project |-> value_counts(df, "project_id"),
              responders_by_response |-> value_counts(df, "response"),
              subjects_by_gender |-> value_counts(df, "sex"),
              unique_subjects |-> Cardinality({r.subject_id : r \in df} \ {NULL})]

(***************************************************************************)
(* main(), step 2: the analysis pipeline, on a connection of its own that  *)
(* reads the committed content of the database file.                       *)
(***************************************************************************)
\* Mutation: the except clause of the analysis pipeline does not return.
AnalysisFailedNoReturn(exception) ==
    /\ error' = exception
    /\ diagnostic' = "Analysis pipeline failed"
    /\ pc' = "listing"

\* main.py 119-121: a step of the analysis pipeline raised.
AnalysisFailed(exception) ==
    /\ error' = exception
    /\ diagnostic' = "Analysis pipeline failed"
    /\ pc' = "exited"

\* main.py 82-86: the analyzer is connected, then mkdir of the output directory
\* raises (the path is taken by a file, or may not be written).
OutputDirFailed ==
    /\ pc = "analysis"
    /\ analyzer_conn' = "open"
    /\ AnalysisFailed("OSError")
    /\ UNCHANGED <<csv, before, disk, conn, db_conn, results>>

\* main.py 82-86: CytometryAnalyzer("cytometry_data.db") and the output directory.
OpenAnalyzer ==
    /\ pc = "analysis"
    /\ analyzer_conn' = "open"
    /\ pc' = "part2"
    /\ UNCHANGED <<csv, before, disk, conn, db_conn, error, diagnostic, results>>

\* main.py 91-92.
Part2 ==
    /\ pc = "part2"
    /\ part2_results' = part2_data_overview(disk)
    /\ pc' = "part3"
    /\ UNCHANGED <<csv, before, disk, conn, db_conn, analyzer_conn, error, diagnostic,
                   summary, part3_data, part3_stats, part4_results, output>>

\* main.py 95-109.
Part3 ==
    /\ pc = "part3"
    /\ part3_data' = part3_data_of(disk)
    /\ part3_stats' = part3_stats_of(disk)
    /\ pc' = "part4"
    /\ UNCHANGED <<csv, before, disk, conn, db_conn, analyzer_conn, error, diagnostic,
                   summary, part2_results, part4_results, output>>

\* main.py 112.
Part4 ==
    /\ pc = "part4"
    /\ part4_results' = part4_subset_analysis(disk)
    /\ pc' = "save_results"
    /\ UNCHANGED <<csv, before, disk, conn, db_conn, analyzer_conn, error, diagnostic,
                   summary, part2_results, part3_data, part3_stats, output>>

\* DataFrame.to_csv writes a missing value (NaN) as an empty field.
CsvField(value) ==
    IF value.kind = "nan" THEN [kind |-> "empty", num |-> 0, den |-> 0] ELSE value

\* The rows of part2_data_overview.csv.
OverviewCsv(frame) ==
    [i \in 1..Len(frame) |-> [frame[i] EXCEPT !.percentage = CsvField(@)]]

\* The rows of part3_melanoma_data.csv.
CohortCsv(frame) ==
    {[r EXCEPT !.percentage = CsvField(@)] : r \in frame}

\* CytometryAnalyzer.save_results: every analysis is run again and written.
save_results(db) ==
    [file \in {"part2_data_overview.csv", "part3_melanoma_data.csv",
               "part3_boxplot.png", "part3_statistical_results.csv",
               "part4_baseline_analysis.txt"} |->
        CASE file = "part2_data_overview.csv" -> OverviewCsv(part2_data_overview(db))
          [] file = "part3_melanoma_data.csv" -> CohortCsv(part3_data_of(db))
          [] file = "part3_boxplot.png" -> "figure"
          [] file = "part3_statistical_results.csv" -> part3_stats_of(db)
          [] file = "part4_baseline_analysis.txt" -> part4_subset_analysis(db)]

\* main.py 115-117; output holds the files this run has written.
SaveResults ==
    /\ pc = "save_results"
    /\ output' = save_results(disk)
    /\ pc' = "listing"
    /\ UNCHANGED <<csv, before, disk, conn, db_conn, analyzer_conn, error, diagnostic,
                   summary, part2_results, part3_data, part3_stats, part4_results>>

\* save_results 235-252: the files in the order they are written.
WriteOrder ==
    <<"part2_data_overview.csv", "part3_melanoma_data.csv", "part3_boxplot.png",
      "part3_statistical_results.csv", "part4_baseline_analysis.txt">>

\* main.py 115 and 119-121: a write of save_results raises; the files written
\* before it stay.
SaveResultsFailed ==
    /\ pc = "save_results"
    /\ \E written \in 0..(Len(WriteOrder) - 1) :
          output' = [file \in {WriteOrder[i] : i \in 1..written} |->
                        save_results(disk)[file]]
    /\ AnalysisFailed("OSError")
    /\ UNCHANGED <<csv, before, disk, conn, db_conn, analyzer_conn,
                   summary, part2_results, part3_data, part3_stats, part4_results>>

\* main.py 123-153: the dashboard hint and the list of output files.
Listing ==
    /\ pc = "listing"
    /\ diagnostic' = "Analysis Complete"
    /\ pc' = "exited"
    /\ UNCHANGED <<csv, before, disk, conn, db_conn, analyzer_conn, error, results>>

\* main() has returned and the process ends: its connections and results are
\* gone, the database file stays.
ProcessExit ==
    /\ pc = "exited"
    /\ pc' = "idle"
    /\ csv' = NoFile
    /\ before' = NoSnapshot
    /\ conn' = disk
    /\ db_conn' = "none"
    /\ analyzer_conn' = "none"
    /\ error' = "none"
    /\ diagnostic' = "none"
    /\ summary' = NoResult
    /\ part2_results' = NoResult
    /\ part3_data' = NoResult
    /\ part3_stats' = NoResult
    /\ part4_results' = NoResult
    /\ output' = <<>>
    /\ UNCHANGED disk

Next ==
    \/ MainStart
    \/ InitDb
    \/ FileRemoved
    \/ LoadValidate
    \/ DeleteCellCounts
    \/ DeleteSamples
    \/ DeleteSubjects
    \/ DeleteProjects
    \/ InsertProjects
    \/ InsertSubjects
    \/ InsertSamples
    \/ InsertCellCounts
    \/ Commit
    \/ Summary
    \/ OpenAnalyzer
    \/ OutputDirFailed
    \/ Part2
    \/ Part3
    \/ Part4
    \/ SaveResults
    \/ SaveResultsFailed
    \/ Listing
    \/ ProcessExit

Spec == Init /\ [][Next]_vars

(***************************************************************************)
(* What a file says, stated on its rows (not on the frames of the loader). *)
(***************************************************************************)
FilePopulations == {"b_cell", "cd8_t_cell", "cd4_t_cell", "nk_cell", "monocyte"}

FileProjects(rows) ==
    {[project_id |-> r.project, project_name |-> r.project,
      description |-> "Cytometry analysis project"] : r \in Range(rows)}

FileSubjects(rows) ==
    {[subject_id |-> r.subject, project_id |-> r.project, condition |-> r.condition,
      age |-> r.age, sex |-> r.sex, treatment |-> r.treatment,
      response |-> r.response] : r \in Range(rows)}

FileSamples(rows) ==
    {[sample_id |-> r.sample, subject_id |-> r.subject, sample_type |-> r.sample_type,
      time_from_treatment_start |-> r.time_from_treatment_start] : r \in Range(rows)}

FileCellCounts(rows) ==
    {[sample_id |-> r.sample, population_id |-> p, count |-> r[p]] :
        r \in Range(rows), p \in FilePopulations}

\* The load of this run has completed (load_data_from_csv returned).
LoadCompleted ==
    pc \in {"summary", "analysis", "part2", "part3", "part4", "save_results", "listing"}

(***************************************************************************)
(* C1: a completed load of a file of N rows leaves N samples and 5 * N     *)
(* cell counts in the store, and a completed load of the file whose rows   *)
(* the store already held leaves the project, subject, sample and cell     *)
(* count numbers as they were.                                             *)
(***************************************************************************)
C1_RoundTripCounts ==
    pc = "summary" =>
        /\ Cardinality(disk.samples) = Len(csv.rows)
        /\ Cardinality(disk.cell_counts) = 5 * Len(csv.rows)
        /\ before.same_file => Counts(disk) = before.counts

\* A file of several rows has been loaded again.
C1_Witness ==
    /\ pc = "summary"
    /\ Len(csv.rows) >= 2
    /\ before.same_file

(***************************************************************************)
(* C2: when a load has completed the four tables hold exactly the rows of  *)
(* the file just loaded, whatever they held before; and the clear step     *)
(* empties cell_counts, then samples, then subjects, then projects, all    *)
(* before the first insert.                                                *)
(***************************************************************************)
C2_StoreHoldsOneFile ==
    /\ pc = "summary" =>
          /\ disk.projects = FileProjects(csv.rows)
          /\ disk.subjects = FileSubjects(csv.rows)
          /\ disk.samples = FileSamples(csv.rows)
          /\ disk.cell_counts = FileCellCounts(csv.rows)
    /\ pc = "delete_cell_counts" => conn = disk
    /\ pc = "delete_samples" => conn = [disk EXCEPT !.cell_counts = {}]
    /\ pc = "delete_subjects" =>
          conn = [disk EXCEPT !.cell_counts = {}, !.samples = {}]
    /\ pc = "delete_projects" =>
          conn = [disk EXCEPT !.cell_counts = {}, !.samples = {}, !.subjects = {}]
    /\ pc = "insert_projects" =>
          conn = [disk EXCEPT !.cell_counts = {}, !.samples = {}, !.subjects = {},
                              !.projects = {}]

\* A load has completed on a store that held the rows of another file.
C2_Witness ==
    /\ pc = "summary"
    /\ before.counts.cell_counts > 0
    /\ ~before.same_file
    /\ Len(csv.rows) > 0

(***************************************************************************)
(* C3: in every state, of the connection and of the committed file alike,  *)
(* every sample names an existing subject, every subject an existing       *)
(* project, every cell count an existing sample and an existing            *)
(* population; and the insert of a cell count whose sample_id names no     *)
(* sample is refused.                                                      *)
(***************************************************************************)
ReferentialIntegrity(db) ==
    /\ \A sa \in db.samples : \E s \in db.subjects : s.subject_id = sa.subject_id
    /\ \A s \in db.subjects : \E p \in db.projects : p.project_id = s.project_id
    /\ \A cc \in db.cell_counts :
          /\ \E sa \in db.samples : sa.sample_id = cc.sample_id
          /\ \E cp \in db.cell_populations : cp.population_id = cc.population_id

SampleIds == {InputRows[i].sample : i \in 1..Len(InputRows)}

OrphanRefused(db) ==
    \A id \in SampleIds, pop \in FilePopulations :
        (\A sa \in db.samples : sa.sample_id # id) =>
            ~InsertAccepted("cell_counts",
                            <<[sample_id |-> id, population_id |-> pop, count |-> 1]>>,
                            db)

C3_ReferentialIntegrity ==
    /\ ReferentialIntegrity(conn)
    /\ ReferentialIntegrity(disk)
    /\ OrphanRefused(conn)

\* A load has failed part-way: subjects are committed, samples are not.
C3_Witness ==
    /\ pc = "exited"
    /\ error = "IntegrityError"
    /\ disk.subjects # {}
    /\ disk.samples = {}

(***************************************************************************)
(* C4: when several rows of the file carry the same subject the load       *)
(* succeeds and stores one subject row for it, with the values of the      *)
(* first of those rows.  (The file has no other defect: its columns are    *)
(* complete, its sample ids distinct, its sex values M or F.)              *)
(***************************************************************************)
RepeatedSubject(rows) ==
    \E i, j \in 1..Len(rows) : i < j /\ rows[i].subject = rows[j].subject

OtherwiseLoadable(file) ==
    /\ file.exists
    /\ required_columns \subseteq file.columns
    /\ \A i, j \in 1..Len(file.rows) : i # j => file.rows[i].sample # file.rows[j].sample
    /\ \A i \in 1..Len(file.rows) : file.rows[i].sex \in {"M", "F"}

\* The first row of the file with the given subject.
FirstRowOf(rows, subject) ==
    rows[CHOOSE i \in 1..Len(rows) :
            /\ rows[i].subject = subject
            /\ \A j \in 1..(i - 1) : rows[j].subject # subject]

C4_FirstSeenSubjectWins ==
    (OtherwiseLoadable(csv) /\ RepeatedSubject(csv.rows)) =>
        /\ pc = "exited" => error = "none"
        /\ LoadCompleted =>
              \A v \in {csv.rows[i].subject : i \in 1..Len(csv.rows)} :
                  {s \in disk.subjects : s.subject_id = v}
                      = FileSubjects(<<FirstRowOf(csv.rows, v)>>)

(***************************************************************************)
(* C5: every subject row of the store has sex M or F and response yes, no  *)
(* or NULL, and no load completes on a file with another sex or response.  *)
(***************************************************************************)
SubjectDomains(s) ==
    /\ s.sex \in {"M", "F"}
    /\ s.response \in {"yes", "no", NULL}

C5_SubjectValueDomains ==
    /\ \A s \in disk.subjects \cup conn.subjects : SubjectDomains(s)
    /\ LoadCompleted => \A i \in 1..Len(csv.rows) : SubjectDomains(csv.rows[i])

(***************************************************************************)
(* C6: after a completed load every sample of the store has exactly five   *)
(* cell count rows, one for each of the five populations, and the count of *)
(* each is the value of that population's column in the sample's row of    *)
(* the file.                                                               *)
(***************************************************************************)
CellCountsOf(db, sample) == {cc \in db.cell_counts : cc.sample_id = sample}

C6_FivePopulationsPerSample ==
    LoadCompleted =>
        \A sa \in disk.samples :
            LET ccs == CellCountsOf(disk, sa.sample_id)
            IN  /\ {cc.population_id : cc \in ccs} = FilePopulations
                /\ Cardinality(ccs) = 5
                /\ \A cc \in ccs : \A i \in 1..Len(csv.rows) :
                      csv.rows[i].sample = sa.sample_id =>
                          cc.count = csv.rows[i][cc.population_id]
                /\ \E i \in 1..Len(csv.rows) : csv.rows[i].sample = sa.sample_id

\* A file of several samples, with different counts, has been loaded.
C6_Witness ==
    /\ LoadCompleted
    /\ Cardinality(disk.samples) >= 2
    /\ \E cc \in disk.cell_counts : cc.count > 1

(***************************************************************************)
(* Positions of main() at which the result of an analysis is at hand.      *)
(***************************************************************************)
AfterPart2 == pc \in {"part3", "part4", "save_results", "listing"}

AfterPart3 == pc \in {"part4", "save_results", "listing"}

\* The sum of f over the set S of its arguments.
RECURSIVE SumOver(_, _)
SumOver(f, S) ==
    IF S = {} THEN 0
    ELSE LET x == CHOOSE x \in S : TRUE
         IN  f[x] + SumOver(f, S \ {x})

\* The positions of the records of one sample in the overview.
RecordsOf(frame, sample) == {i \in 1..Len(frame) : frame[i].sample = sample}

(***************************************************************************)
(* C7: the overview has exactly one record for every (sample, population)  *)
(* pair of cell_counts, with that row's count; the total_count of a record *)
(* is the sum of the counts of all cell count rows of its sample; the      *)
(* records are in the order of sample, then population; and the call       *)
(* changes no table.                                                       *)
(***************************************************************************)
C7_OverviewRecords ==
    AfterPart2 =>
        /\ \A cc \in disk.cell_counts :
              Cardinality({i \in 1..Len(part2_results) :
                              /\ part2_results[i].sample = cc.sample_id
                              /\ part2_results[i].population = cc.population_id
                              /\ part2_results[i].count = cc.count}) = 1
        /\ Len(part2_results) = Cardinality(disk.cell_counts)
        /\ \A i \in 1..Len(part2_results) :
              part2_results[i].total_count
                  = SumOver([cc \in CellCountsOf(disk, part2_results[i].sample) |-> cc.count],
                            CellCountsOf(disk, part2_results[i].sample))
        /\ \A i, j \in 1..Len(part2_results) :
              i < j =>
                  \/ TextRank(part2_results[i].sample) < TextRank(part2_results[j].sample)
                  \/ /\ part2_results[i].sample = part2_results[j].sample
                     /\ TextRank(part2_results[i].population)
                            < TextRank(part2_results[j].population)

C7_OverviewIsPureRead ==
    [][pc = "part2" => (disk' = disk /\ conn' = conn)]_vars

C7_DataOverview == []C7_OverviewRecords /\ C7_OverviewIsPureRead

\* The overview of a store of several samples, loaded out of sample order.
C7_Witness ==
    /\ AfterPart2
    /\ Len(part2_results) >= 10
    /\ TextRank(csv.rows[1].sample) > TextRank(csv.rows[2].sample)

(***************************************************************************)
(* C8: for every sample with total_count > 0 the five percentages of the   *)
(* overview are count * 100 / total_count, the five counts sum to          *)
(* total_count, and so the percentages sum to 100.                         *)
(***************************************************************************)
C8_PercentagesSumTo100 ==
    AfterPart2 =>
        \A i \in 1..Len(part2_results) :
            part2_results[i].total_count > 0 =>
                LET own == RecordsOf(part2_results, part2_results[i].sample)
                    total == part2_results[i].total_count
                IN  /\ Cardinality(own) = 5
                    /\ \A k \in own :
                          /\ part2_results[k].total_count = total
                          /\ part2_results[k].percentage
                                = Number(part2_results[k].count * 100, total)
                    /\ SumOver([k \in own |-> part2_results[k].count], own) = total
                    /\ SumOver([k \in own |-> part2_results[k].percentage.num], own)
                          = 100 * total

\* The overview of two samples with different positive totals.
C8_Witness ==
    /\ AfterPart2
    /\ \E i, j \in 1..Len(part2_results) :
          /\ part2_results[i].total_count > 0
          /\ part2_results[j].total_count > part2_results[i].total_count
          /\ part2_results[i].count > 0

(***************************************************************************)
(* C9: when the store holds a sample whose five counts are all zero, the   *)
(* percentage computations of the overview and of the comparison raise     *)
(* nothing, every percentage of that sample is NaN and never a number, the *)
(* percentages of the other samples are the numbers they are without it,   *)
(* and save_results writes the overview file, the NaN as an empty field.   *)
(***************************************************************************)
ZeroSamples(db) ==
    {sa.sample_id : sa \in {sa \in db.samples :
        /\ CellCountsOf(db, sa.sample_id) # {}
        /\ \A cc \in CellCountsOf(db, sa.sample_id) : cc.count = 0}}

\* The total of a sample, from the rows of the file.
FileTotal(rows, sample) ==
    LET r == rows[CHOOSE i \in 1..Len(rows) : rows[i].sample = sample]
    IN  r.b_cell + r.cd8_t_cell + r.cd4_t_cell + r.nk_cell + r.monocyte

C9_ZeroTotalSample ==
    (LoadCompleted /\ ZeroSamples(disk) # {}) =>
        /\ error = "none"
        /\ AfterPart2 =>
              \A i \in 1..Len(part2_results) :
                  IF part2_results[i].sample \in ZeroSamples(disk)
                     THEN part2_results[i].percentage = NaN
                     ELSE FileTotal(csv.rows, part2_results[i].sample) > 0 =>
                            part2_results[i].percentage
                                = Number(part2_results[i].count * 100,
                                         FileTotal(csv.rows, part2_results[i].sample))
        /\ AfterPart3 =>
              \A r \in part3_data :
                  IF r.sample_id \in ZeroSamples(disk)
                     THEN r.percentage = NaN
                     ELSE FileTotal(csv.rows, r.sample_id) > 0 =>
                            r.percentage
                                = Number(r.count * 100, FileTotal(csv.rows, r.sample_id))
        /\ pc = "listing" =>
              /\ "part2_data_overview.csv" \in DOMAIN output
              /\ Len(output["part2_data_overview.csv"]) = Cardinality(disk.cell_counts)
              /\ \A i \in 1..Len(output["part2_data_overview.csv"]) :
                    LET line == output["part2_data_overview.csv"][i]
                    IN  /\ line.sample = part2_results[i].sample
                        /\ line.population = part2_results[i].population
                        /\ line.count = part2_results[i].count
                        /\ line.sample \in ZeroSamples(disk) =>
                              line.percentage.kind = "empty"
                        /\ line.sample \notin ZeroSamples(disk) =>
                              line.percentage = part2_results[i].percentage

\* The reports are written for a store with an all-zero sample of the cohort
\* and a sample with counts.
C9_Witness ==
    /\ pc = "listing"
    /\ ZeroSamples(disk) # {}
    /\ \E r \in part3_data : r.sample_id \in ZeroSamples(disk)
    /\ \E i \in 1..Len(part2_results) : part2_results[i].percentage.kind = "number"

(***************************************************************************)
(* C10: the statistical results have an entry for a population exactly     *)
(* when the cohort (melanoma, miraclib, PBMC) has a cell count record of   *)
(* it from a subject with response yes and one from a subject with         *)
(* response no; n_responders and n_non_responders of the entry are the     *)
(* numbers of those records.                                               *)
(***************************************************************************)
CohortRecords(db, pop, response) ==
    {cc \in db.cell_counts :
        /\ cc.population_id = pop
        /\ \E sa \in db.samples, s \in db.subjects :
              /\ sa.sample_id = cc.sample_id
              /\ s.subject_id = sa.subject_id
              /\ sa.sample_type = "PBMC"
              /\ s.condition = "melanoma"
              /\ s.treatment = "miraclib"
              /\ s.response = response}

C10_StatisticalEntries ==
    AfterPart3 =>
        /\ DOMAIN part3_stats =
              {pop \in FilePopulations :
                  /\ CohortRecords(disk, pop, "yes") # {}
                  /\ CohortRecords(disk, pop, "no") # {}}
        /\ \A pop \in DOMAIN part3_stats :
              /\ part3_stats[pop].n_responders
                    = Cardinality(CohortRecords(disk, pop, "yes"))
              /\ part3_stats[pop].n_non_responders
                    = Cardinality(CohortRecords(disk, pop, "no"))

\* Entries for groups of different sizes.
C10_Witness ==
    /\ AfterPart3
    /\ \E pop \in DOMAIN part3_stats :
          part3_stats[pop].n_responders > part3_stats[pop].n_non_responders

(***************************************************************************)
(* C11: the baseline summary counts the samples and the subjects of the    *)
(* baseline cohort (melanoma, miraclib, PBMC, time_from_treatment_start    *)
(* 0): total_samples is the number of its samples, unique_subjects the     *)
(* number of its subjects, and responders_by_response[v] and               *)
(* subjects_by_gender[v] are the numbers of its distinct subjects with     *)
(* response v and with sex v, also when a subject has several baseline     *)
(* samples.                                                                *)
(***************************************************************************)
AfterPart4 == pc \in {"save_results", "listing"}

BaselineSubjects(db) ==
    {s \in db.subjects :
        /\ s.condition = "melanoma"
        /\ s.treatment = "miraclib"
        /\ \E sa \in db.samples :
              /\ sa.subject_id = s.subject_id
              /\ sa.sample_type = "PBMC"
              /\ sa.time_from_treatment_start = 0}

BaselineSamples(db) ==
    {sa \in db.samples :
        /\ sa.sample_type = "PBMC"
        /\ sa.time_from_treatment_start = 0
        /\ \E s \in BaselineSubjects(db) : s.subject_id = sa.subject_id}

C11_BaselineCountsSubjects ==
    (AfterPart4 /\ BaselineSamples(disk) # {}) =>
        /\ part4_results.total_samples = Cardinality(BaselineSamples(disk))
        /\ part4_results.unique_subjects = Cardinality(BaselineSubjects(disk))
        /\ \A v \in DOMAIN part4_results.responders_by_response :
              part4_results.responders_by_response[v]
                 = Cardinality({s \in BaselineSubjects(disk) : s.response = v})
        /\ \A v \in DOMAIN part4_results.subjects_by_gender :
              part4_results.subjects_by_gender[v]
                 = Cardinality({s \in BaselineSubjects(disk) : s.sex = v})

(***************************************************************************)
(* C12: an analysis whose filter matches no row returns an empty result    *)
(* and raises nothing: the overview of a store without cell counts has no  *)
(* record; the comparison of a store without a cohort member has no record *)
(* and no statistical entry, and with responders only or non-responders    *)
(* only it has no statistical entry; the baseline summary of a store       *)
(* without a baseline sample is the empty mapping.                         *)
(***************************************************************************)
CohortMembers(db) ==
    {cc \in db.cell_counts :
        \E sa \in db.samples, s \in db.subjects :
            /\ sa.sample_id = cc.sample_id
            /\ s.subject_id = sa.subject_id
            /\ sa.sample_type = "PBMC"
            /\ s.condition = "melanoma"
            /\ s.treatment = "miraclib"
            /\ s.response # NULL}

OneGroupOnly(db) ==
    \/ \A cc \in CohortMembers(db) : cc \notin CohortRecords(db, cc.population_id, "yes")
    \/ \A cc \in CohortMembers(db) : cc \notin CohortRecords(db, cc.population_id, "no")

C12_EmptyResults ==
    /\ (AfterPart2 /\ disk.cell_counts = {}) =>
          /\ Len(part2_results) = 0
          /\ error = "none"
    /\ (AfterPart3 /\ CohortMembers(disk) = {}) =>
          /\ part3_data = {}
          /\ DOMAIN part3_stats = {}
          /\ error = "none"
    /\ (AfterPart3 /\ OneGroupOnly(disk)) =>
          /\ DOMAIN part3_stats = {}
          /\ error = "none"
    /\ (AfterPart4 /\ BaselineSamples(disk) = {}) =>
          /\ DOMAIN part4_results = {}
          /\ error = "none"

\* The reports of a store whose cohort has one group only and no baseline
\* sample.
C12_Witness ==
    /\ pc = "listing"
    /\ part3_data # {}
    /\ OneGroupOnly(disk)
    /\ DOMAIN part3_stats = {}
    /\ BaselineSamples(disk) = {}
    /\ DOMAIN part4_results = {}

\* The reports of an empty store.
C12_EmptyStoreAnalysed ==
    /\ pc = "listing"
    /\ disk.samples = {}
    /\ Len(part2_results) = 0

(***************************************************************************)
(* C13: a run of main goes through the stages load, summary, analyses,     *)
(* report writing, artifact listing in this order, and enters a stage only *)
(* from the stage before it and without an error.  A missing file and a    *)
(* failed load or summary end the run with no analysis and no report; a    *)
(* failed analysis or report ends it without the artifact listing; every   *)
(* run ends with a diagnostic, and an error that is raised is caught by    *)
(* main and ends the run.                                                  *)
(***************************************************************************)
Stage(at) ==
    CASE at = "idle" -> 0
      [] at \in {"init_db", "load", "commit"} -> 1
      [] at \in {"delete_" \o t : t \in DOMAIN EmptyStore} -> 1
      [] at \in {"insert_" \o t : t \in DOMAIN EmptyStore} -> 1
      [] at = "summary" -> 2
      [] at \in {"analysis", "part2", "part3", "part4"} -> 3
      [] at = "save_results" -> 4
      [] at = "listing" -> 5
      [] at = "exited" -> 6

FailureDiagnostics == {"Database setup failed", "Analysis pipeline failed"}

C13_StageOrder ==
    [][/\ \/ Stage(pc') \in {Stage(pc), Stage(pc) + 1}
          \/ pc' = "exited"
          \/ pc = "exited" /\ pc' = "idle"
       /\ pc' # "exited" => error' = "none"
       /\ (error = "none" /\ error' # "none") =>
             (pc' = "exited" /\ pc # "idle" /\ diagnostic' \in FailureDiagnostics)
       /\ (Stage(pc) < 3 /\ pc' = "exited") =>
             (diagnostic' \in {"CSV file not found", "Database setup failed"})
       /\ (Stage(pc) \in {3, 4} /\ pc' = "exited") =>
             (error' # "none" /\ diagnostic' = "Analysis pipeline failed")
       /\ (analyzer_conn' # analyzer_conn /\ pc # "exited") => pc = "analysis"
       /\ (DOMAIN output' # DOMAIN output /\ pc # "exited") => pc = "save_results"
       /\ (diagnostic' = "Analysis Complete") <=> (pc = "listing")]_vars

C13_Outcome ==
    pc = "exited" =>
        /\ diagnostic # "none"
        /\ error # "none" <=> diagnostic \in FailureDiagnostics
        /\ diagnostic \in {"CSV file not found", "Database setup failed"} =>
              /\ analyzer_conn = "none"
              /\ DOMAIN output = {}
        /\ diagnostic = "CSV file not found" => db_conn = "none"
        /\ diagnostic = "Analysis Complete" =>
              DOMAIN output = {WriteOrder[i] : i \in 1..Len(WriteOrder)}

C13_StagesInOrder == []C13_Outcome /\ C13_StageOrder

\* A run that failed while it wrote the reports, after the first of them.
C13_Witness ==
    /\ pc = "exited"
    /\ diagnostic = "Analysis pipeline failed"
    /\ DOMAIN output # {}

(***************************************************************************)
(* C15: when main has returned, no connection it opened is still open: the *)
(* connection of the load is closed after a load or summary that raised as *)
(* well as after one that succeeded, and the connection of the analyzer is *)
(* closed after the analysis stage, whether it succeeded or failed.        *)
(***************************************************************************)
C15_ConnectionsClosed ==
    pc = "exited" =>
        /\ db_conn # "open"
        /\ analyzer_conn # "open"

\* The part of C15 about the analyzer, for a run that completed.
C15_AnalyzerClosedOnSuccess ==
    (pc = "exited" /\ diagnostic = "Analysis Complete") => analyzer_conn # "open"

(***************************************************************************)
(* C16: a call of load_data_from_csv for a path that does not exist raises *)
(* FileNotFoundError, and for a file that lacks a required column raises   *)
(* ValueError, before any table is cleared: the committed tables and the   *)
(* tables seen by the connection are those from before the call.  A file   *)
(* with every required column is not rejected, whatever other columns it   *)
(* has.                                                                    *)
(***************************************************************************)
ValidationErrors == {"FileNotFoundError", "ValueError"}

C16_ValidationBeforeClear ==
    [][/\ error' \in ValidationErrors =>
             /\ pc = "load"
             /\ pc' = "exited"
             /\ disk' = disk
             /\ conn' = conn
       /\ (pc = "load" /\ pc' # "load") =>
             /\ ~csv.exists => error' = "FileNotFoundError"
             /\ (csv.exists /\ ~(required_columns \subseteq csv.columns)) =>
                   error' = "ValueError"
             /\ (csv.exists /\ required_columns \subseteq csv.columns) =>
                   /\ error' = "none"
                   /\ pc' = "delete_cell_counts"]_vars

\* A file without the response column was refused and the store keeps the
\* rows of an earlier load.
C16_Witness ==
    /\ pc = "exited"
    /\ error = "ValueError"
    /\ "response" \notin csv.columns
    /\ disk.samples # {}
    /\ disk.cell_counts # {}

\* The load of a path that has gone was refused; the store keeps its rows.
C16_MissingPathRefused ==
    /\ pc = "exited"
    /\ error = "FileNotFoundError"
    /\ disk.samples # {}

\* A file with an extra column was loaded.
C16_ExtraColumnLoaded ==
    /\ LoadCompleted
    /\ csv.columns \ required_columns # {}
    /\ disk.samples # {}

(***************************************************************************)
(* C17: every record of the comparison's joined data is of a PBMC sample   *)
(* of a melanoma subject treated with miraclib whose response is yes or    *)
(* no; every stored cell count of such a sample is in the data exactly     *)
(* once; and the total_count of a record is the total_count the overview   *)
(* reports for its sample, the percentage being computed against it.       *)
(***************************************************************************)
RespondingCohort(db) ==
    {cc \in db.cell_counts :
        \E pop \in FilePopulations, response \in {"yes", "no"} :
            cc \in CohortRecords(db, pop, response)}

C17_CohortRecordSet ==
    AfterPart3 =>
        /\ \A r \in part3_data :
              /\ r.response \in {"yes", "no"}
              /\ \E sa \in disk.samples, s \in disk.subjects :
                    /\ sa.sample_id = r.sample_id
                    /\ s.subject_id = sa.subject_id
                    /\ s.subject_id = r.subject_id
                    /\ s.response = r.response
                    /\ sa.sample_type = "PBMC"
                    /\ s.condition = "melanoma"
                    /\ s.treatment = "miraclib"
        /\ \A cc \in RespondingCohort(disk) :
              Cardinality({r \in part3_data :
                              /\ r.sample_id = cc.sample_id
                              /\ r.population_id = cc.population_id
                              /\ r.count = cc.count}) = 1
        /\ Cardinality(part3_data) = Cardinality(RespondingCohort(disk))
        /\ \A r \in part3_data :
              \A i \in 1..Len(part2_results) :
                  part2_results[i].sample = r.sample_id =>
                      /\ r.total_count = part2_results[i].total_count
                      /\ r.percentage = Percentage(r.count, part2_results[i].total_count)

\* C17 without its restriction of the response to yes and no: the records
\* are those of the cohort's subjects with any response that is not missing.
C17_AnyResponseRecordSet ==
    AfterPart3 =>
        /\ \A r \in part3_data :
              /\ r.response # NULL
              /\ \E sa \in disk.samples, s \in disk.subjects :
                    /\ sa.sample_id = r.sample_id
                    /\ s.subject_id = sa.subject_id
                    /\ s.subject_id = r.subject_id
                    /\ s.response = r.response
                    /\ sa.sample_type = "PBMC"
                    /\ s.condition = "melanoma"
                    /\ s.treatment = "miraclib"
        /\ \A cc \in CohortMembers(disk) :
              Cardinality({r \in part3_data :
                              /\ r.sample_id = cc.sample_id
                              /\ r.population_id = cc.population_id
                              /\ r.count = cc.count}) = 1
        /\ Cardinality(part3_data) = Cardinality(CohortMembers(disk))
        /\ \A r \in part3_data :
              \A i \in 1..Len(part2_results) :
                  part2_results[i].sample = r.sample_id =>
                      /\ r.total_count = part2_results[i].total_count
                      /\ r.percentage = Percentage(r.count, part2_results[i].total_count)

====
